---- MODULE Spec2Model ----
(***************************************************************************)
(* Model of the two MongoDB Playground scripts of rfm-project:             *)
(*   - the btw_orders query (filter, projection, sort, limit 1);           *)
(*   - the crm_customer_profiles find by "orders.order_id", with its       *)
(*     deleteOne helper that is defined but not called.                    *)
(* BSON values are tagged records; a document is a function from the      *)
(* names of its fields to values, a field that is not in the domain is     *)
(* missing.                                                                *)
(* The records of btw_orders have none of the three computed names as a    *)
(* key of their own, full_order_code and created_date are scalars, and     *)
(* the order of the fields of a document is not kept.                      *)
(***************************************************************************)
EXTENDS Integers, Sequences, FiniteSets, TLC

VARIABLES btw_orders, crm_customer_profiles, result, pc

vars == <<btw_orders, crm_customer_profiles, result, pc>>

(***************************************************************************)
(* Bounds                                                                  *)
(***************************************************************************)
MaxNested == 2
MaxOrders == 2
MaxDate == 2
MaxProfiles == 2
MaxProfileOrders == 2

(***************************************************************************)
(* BSON values                                                             *)
(***************************************************************************)
Missing == [t |-> "missing"]
Null == [t |-> "null"]
Error == [t |-> "error"]
Str(s) == [t |-> "str", v |-> s]
Date(n) == [t |-> "date", v |-> n]
Long(n) == [t |-> "long", v |-> n]
Double(n) == [t |-> "double", v |-> n]
Arr(s) == [t |-> "arr", v |-> s]
Doc(f) == [t |-> "doc", v |-> f]
EmptyDoc == [k \in {} |-> Null]

IsNullish(val) == val.t \in {"null", "missing"}

getField(doc, name) == IF name \in DOMAIN doc THEN doc[name] ELSE Missing

(***************************************************************************)
(* Aggregation expressions used by the projection of the order query       *)
(***************************************************************************)
RECURSIVE evaluatePath(_, _)
RECURSIVE evaluatePathArray(_, _)

\* A field path "$a.b.c" evaluated on a document: an embedded document is
\* entered, an array is mapped over, anything else ends the path as missing.
evaluatePath(path, doc) ==
  LET val == getField(doc, Head(path)) IN
  IF Len(path) = 1 THEN val
  ELSE IF val.t = "doc" THEN evaluatePath(Tail(path), val.v)
  ELSE IF val.t = "arr" THEN Arr(evaluatePathArray(Tail(path), val.v))
  ELSE Missing

\* The rest of the path on each element of an array: elements that are not
\* documents and elements where the path is missing contribute nothing.
evaluatePathArray(path, array) ==
  IF array = <<>> THEN <<>>
  ELSE LET elem == Head(array)
           nested == IF elem.t = "doc" THEN evaluatePath(path, elem.v) ELSE Missing
           rest == evaluatePathArray(path, Tail(array))
       IN IF nested.t = "missing" THEN rest ELSE <<nested>> \o rest

\* $first giving null for an empty array, as it does for a missing one.
FirstOfEmptyIsNull(val) ==
  IF IsNullish(val) THEN Null
  ELSE IF val.t # "arr" THEN Error
  ELSE IF val.v = <<>> THEN Null
  ELSE val.v[1]

\* $first failing on everything that is no array, null and missing too.
FirstRejectsNullish(val) ==
  IF val.t # "arr" THEN Error
  ELSE IF val.v = <<>> THEN Missing
  ELSE val.v[1]

\* {$first: <array>}
First(val) ==
  IF IsNullish(val) THEN Null
  ELSE IF val.t # "arr" THEN Error
  ELSE IF val.v = <<>> THEN Missing
  ELSE val.v[1]

FieldPath(p) == [op |-> "path", path |-> p]
FirstOf(p) == [op |-> "first", path |-> p]

evaluate(expr, root) ==
  IF expr.op = "first" THEN First(evaluatePath(expr.path, root))
  ELSE evaluatePath(expr.path, root)

(***************************************************************************)
(* The projection argument of the btw_orders find                          *)
(***************************************************************************)
PassthroughFields ==
  {"provider_id", "shop_id", "channel_id", "member_id", "created_date",
   "modified_date", "shipping_zipcode", "order_id", "order_from", "firstname",
   "lastname", "email", "phone", "shipping_firstname", "shipping_lastname",
   "shipping_email", "shipping_phone", "shipping_address_1",
   "shipping_address_2", "shipping_subdistrict", "shipping_district",
   "shipping_province", "grand_total", "extern_member_id"}

lazada_info ==
  [customer_first_name |-> FirstOf(<<"order_lazada", "customer_first_name">>),
   customer_last_name |-> FirstOf(<<"order_lazada", "customer_last_name">>)]

shopee_info ==
  [shopee_user_id |-> FirstOf(<<"order_shopee", "raw_body", "buyer_user_id">>),
   shopee_user_name |-> FirstOf(<<"order_shopee", "raw_body", "buyer_username">>)]

LineShoppingFields ==
  {"recipientName", "address", "province", "postalCode", "phoneNumber",
   "email", "district", "subDistrict"}

\* address and district read from each other's path.
line_shopping_info_swapped ==
  [k \in LineShoppingFields |->
     FieldPath(<<"order_line_shopping", "shipping_address",
                 IF k = "address" THEN "district"
                 ELSE IF k = "district" THEN "address" ELSE k>>)]

line_shopping_info ==
  [k \in LineShoppingFields |->
     FieldPath(<<"order_line_shopping", "shipping_address", k>>)]

ComputedFields ==
  [lazada_info |-> lazada_info,
   shopee_info |-> shopee_info,
   line_shopping_info |-> line_shopping_info]

\* The key of the filter let through as well.
IncludedFieldsWithFilterKey == PassthroughFields \cup {"_id", "full_order_code"}

\* _id is part of every find result unless the projection says _id: 0,
\* which this projection only does in a comment.
IncludedFields == PassthroughFields \cup {"_id"}

\* A computed sub-document: each expression is evaluated on the whole record,
\* a missing result sets no field, so the sub-document is there even when it
\* has no field at all.  An expression that fails makes the query fail.
applyExpressions(exprs, root) ==
  LET vals == [k \in DOMAIN exprs |-> evaluate(exprs[k], root)] IN
  IF \E k \in DOMAIN exprs : vals[k].t = "error" THEN Error
  ELSE Doc([k \in {n \in DOMAIN exprs : vals[n].t # "missing"} |-> vals[k]])

project(rec) ==
  LET included == [k \in (DOMAIN rec) \cap IncludedFields |-> rec[k]]
      computed == [k \in DOMAIN ComputedFields |->
                     applyExpressions(ComputedFields[k], rec)]
  IN IF \E k \in DOMAIN computed : computed[k].t = "error" THEN Error
     ELSE Doc([k \in (DOMAIN included) \cup (DOMAIN computed) |->
                 IF k \in DOMAIN computed THEN computed[k] ELSE included[k]])

(***************************************************************************)
(* Order records                                                           *)
(***************************************************************************)
TargetCode == "WN0303255"
OtherCode == "WN0302230"

\* A document from a function whose missing entries are dropped.
Fields(f) == [k \in {n \in DOMAIN f : f[n].t # "missing"} |-> f[k]]

RECURSIVE SeqsUpTo(_, _)
SeqsUpTo(S, n) ==
  IF n = 0 THEN {<<>>}
  ELSE LET shorter == SeqsUpTo(S, n - 1) IN
       shorter \cup {<<x>> \o s : x \in S, s \in {q \in shorter : Len(q) = n - 1}}

LazadaElements ==
  {Doc(Fields([customer_first_name |-> f, customer_last_name |-> l])) :
     <<f, l>> \in {<<Missing, Missing>>, <<Str("A"), Str("B")>>,
                   <<Str("C"), Missing>>, <<Missing, Str("D")>>}}

ShopeeElements ==
  {Doc(EmptyDoc)} \cup
  {Doc([raw_body |-> Doc(Fields([buyer_user_id |-> u, buyer_username |-> n]))]) :
     <<u, n>> \in {<<Str("U1"), Str("N1")>>, <<Str("U2"), Missing>>,
                   <<Missing, Str("N3")>>}}

\* Missing, null, a sequence, or (malformed) something that is no sequence.
NestedValues(elements) ==
  {Missing, Null, Str("malformed")} \cup {Arr(s) : s \in SeqsUpTo(elements, MaxNested)}

LineShoppingValues ==
  {Missing, Null, Doc(EmptyDoc),
   Doc([shipping_address |-> Doc([address |-> Str("addr")])]),
   Doc([shipping_address |-> Doc([k \in LineShoppingFields |-> Str(k)])])}

\* None of the 24 scalars, or all of them (PlainRecord has just one).
ScalarValues ==
  {EmptyDoc,
   [k \in PassthroughFields |-> IF k = "created_date" THEN Date(1) ELSE Str(k)]}

OrderRecord(id, code, scalars, lazada, shopee, line) ==
  scalars @@ Fields([_id |-> Str(id), full_order_code |-> Str(code),
                     order_lazada |-> lazada, order_shopee |-> shopee,
                     order_line_shopping |-> line])

\* Records that differ in what the filter and the sort look at.
PlainRecord(id, code, date) ==
  Fields([_id |-> Str(ToString(id)), full_order_code |-> Str(code),
          created_date |-> date, provider_id |-> Str("provider_id"),
          order_lazada |-> Arr(<<>>), order_shopee |-> Arr(<<>>)])

CreatedDates == {Missing} \cup {Date(n) : n \in 1..MaxDate}

(***************************************************************************)
(* The btw_orders query: find(filter, projection).sort().limit(1)          *)
(***************************************************************************)
\* {full_order_code: "WN0303255"}
matchesOrderFilter(rec) == getField(rec, "full_order_code") = Str(TargetCode)

\* BSON order of the values created_date takes here: missing and null sort
\* below every date, dates by their time.
sortKeyLess(a, b) ==
  \/ IsNullish(a) /\ ~IsNullish(b)
  \/ a.t = "date" /\ b.t = "date" /\ a.v < b.v

\* The sort ascending.
sortsLast(r, recs) ==
  \A q \in recs :
    ~sortKeyLess(getField(q, "created_date"), getField(r, "created_date"))

\* sort({created_date: -1}): r may come first when no record sorts above it.
sortsFirst(r, recs) ==
  \A q \in recs :
    ~sortKeyLess(getField(r, "created_date"), getField(q, "created_date"))

\* The records .sort({created_date: -1}).limit(1) may leave: one of those
\* that sort first (a tie is broken by the server as it likes), none when
\* nothing matched.
sortLimit(recs) == {r \in recs : sortsFirst(r, recs)}

NotRun == [t |-> "notrun"]
Cursor(docs) == [t |-> "cursor", v |-> docs]

\* The projection is applied to the record the limit leaves; a projection
\* that fails fails the query.
cursorOf(rec) == IF project(rec).t = "error" THEN Error ELSE Cursor(<<project(rec)>>)

matched == {r \in btw_orders : matchesOrderFilter(r)}

RunOrderQuery ==
  /\ IF matched = {}
       THEN result' = Cursor(<<>>)
       ELSE \E r \in sortLimit(matched) : result' = cursorOf(r)
  /\ pc' = "orders"
  /\ UNCHANGED <<btw_orders, crm_customer_profiles>>

(***************************************************************************)
(* The crm_customer_profiles script                                        *)
(***************************************************************************)
\* Order ids are written as their distance from OrderIdBase, the multiple
\* of Ulp below the literal of the filter:
\*   6208981112233112233 = 6063458117415148 * 1024 + 681.
\* Doubles between 2^62 and 2^63 are the multiples of 1024.
Ulp == 1024
OrderIdLiteral == 681

\* The value of a JavaScript number literal: the nearest double, a tie
\* going to the even one (the base is an even multiple of Ulp).
NumberValue(n) ==
  LET r == n % Ulp
      down == n - r
  IN IF 2 * r < Ulp THEN Double(down)
     ELSE IF 2 * r > Ulp THEN Double(down + Ulp)
     ELSE IF (down \div Ulp) % 2 = 0 THEN Double(down) ELSE Double(down + Ulp)

IsNumber(val) == val.t \in {"long", "double"}

\* Numbers of different BSON types compare by their mathematical value.
numberEquals(a, b) == IsNumber(a) /\ IsNumber(b) /\ a.v = b.v

\* The values a dotted path of a filter reaches in a document: an array on
\* the way is entered element by element, an array at the end offers
\* itself and its elements.
RECURSIVE leafValues(_, _)
leafValues(path, doc) ==
  LET val == getField(doc, Head(path)) IN
  IF Len(path) = 1
    THEN IF val.t = "arr" THEN {val} \cup {val.v[i] : i \in DOMAIN val.v}
         ELSE {val}
  ELSE IF val.t = "doc" THEN leafValues(Tail(path), val.v)
  ELSE IF val.t = "arr"
    THEN UNION {leafValues(Tail(path), val.v[i].v) :
                  i \in {j \in DOMAIN val.v : val.v[j].t = "doc"}}
  ELSE {}

\* {"orders.order_id": 6208981112233112233}
matchesCustomerFilter(profile) ==
  \E val \in leafValues(<<"orders", "order_id">>, profile) :
    numberEquals(val, NumberValue(OrderIdLiteral))

\* find(): the empty projection returns the documents whole, the empty sort
\* leaves them unordered, and there is no limit.
find(profiles) == {p \in profiles : matchesCustomerFilter(p)}

DeleteId == "44f4b399-84ab-548f-b801-52ca177bf266"

deleteOne(profiles) == {p \in profiles : p._id # Str(DeleteId)}

\* The script with its last line not a comment.
playgroundWithDelete(profiles) ==
  [profiles |-> deleteOne(profiles), result |-> Cursor(find(profiles))]

\* The script's statements: find() is called, the call of deleteOne() is
\* a comment.
playground(profiles) == [profiles |-> profiles, result |-> Cursor(find(profiles))]

RunCustomerScript ==
  /\ crm_customer_profiles' = playground(crm_customer_profiles).profiles
  /\ result' = playground(crm_customer_profiles).result
  /\ pc' = "customers"
  /\ UNCHANGED btw_orders

ProfileId(i) == IF i = 1 THEN Str(DeleteId) ELSE Str(ToString(i))

OrderIds == {Long(OrderIdLiteral), NumberValue(OrderIdLiteral), Long(0)}

OrdersValues ==
  {Missing} \cup
  {Arr(s) : s \in SeqsUpTo({Doc([order_id |-> n]) : n \in OrderIds}, MaxProfileOrders)}

CustomerProfile(i, orders) == Fields([_id |-> ProfileId(i), orders |-> orders])

(***************************************************************************)
(* Specification: the collections are as the scripts find them, and the    *)
(* scripts are run in any order, any number of times.                      *)
(***************************************************************************)
SomeProfiles ==
  {CustomerProfile(1, Arr(<<Doc([order_id |-> Long(OrderIdLiteral)])>>))}

\* One record, of every shape of the nested fields.
InitProjection ==
  /\ \E sc \in ScalarValues, la \in NestedValues(LazadaElements),
        sh \in NestedValues(ShopeeElements), li \in LineShoppingValues :
       btw_orders = {OrderRecord("1", TargetCode, sc, la, sh, li)}
  /\ crm_customer_profiles = SomeProfiles

\* A record for some of the ids 1..MaxOrders, of any code and date.
InitOrders ==
  /\ \E ids \in SUBSET (1..MaxOrders) :
       \E f \in [ids -> [code : {TargetCode, OtherCode}, date : CreatedDates]] :
         btw_orders = {PlainRecord(i, f[i].code, f[i].date) : i \in ids}
  /\ crm_customer_profiles = SomeProfiles

\* A profile for some of the ids 1..MaxProfiles, of any orders.
InitCustomers ==
  /\ btw_orders = {PlainRecord(1, TargetCode, Date(1))}
  /\ \E ids \in SUBSET (1..MaxProfiles) :
       \E f \in [ids -> OrdersValues] :
         crm_customer_profiles = {CustomerProfile(i, f[i]) : i \in ids}

Init ==
  /\ InitProjection \/ InitOrders \/ InitCustomers
  /\ result = NotRun
  /\ pc = "start"

Next == RunOrderQuery \/ RunCustomerScript

Spec == Init /\ [][Next]_vars

(***************************************************************************)
(* What the claims speak of                                                *)
(***************************************************************************)
OrdersRan == pc = "orders" /\ result.t = "cursor"

\* The projected documents the order query returned.
Views == IF OrdersRan THEN {result.v[i].v : i \in DOMAIN result.v} ELSE {}

\* The record of btw_orders a projected document was made from.
sourceOf(out) == CHOOSE r \in btw_orders : r["_id"] = out["_id"]

IsSequenceOrAbsent(val) == val.t \in {"missing", "null", "arr"}

WellFormed(rec) ==
  /\ IsSequenceOrAbsent(getField(rec, "order_lazada"))
  /\ IsSequenceOrAbsent(getField(rec, "order_shopee"))
  /\ getField(rec, "order_line_shopping").t \in {"missing", "null", "doc"}

\* Field name of element 0 of a sequence, missing when the element has none.
ofElementZero(seq, name) == getField(seq.v[1].v, name)

NonEmptySequence(val) == val.t = "arr" /\ val.v # <<>>

EmptySequence(val) == val.t = "arr" /\ val.v = <<>>

Absent(out, name) == name \notin DOMAIN out \/ out[name].t = "null"

\* C1 as claimed: for a record whose order_lazada is an empty sequence the
\* projection does not fail and lazada_info is absent or null in the output;
\* the same for order_shopee and shopee_info.
C1_AsClaimed ==
  /\ pc = "orders" /\ (\A r \in matched : WellFormed(r)) => result.t = "cursor"
  /\ \A out \in Views :
       /\ EmptySequence(getField(sourceOf(out), "order_lazada"))
            => Absent(out, "lazada_info")
       /\ EmptySequence(getField(sourceOf(out), "order_shopee"))
            => Absent(out, "shopee_info")

\* C1 amended: for a well-formed record whose order_lazada is an empty
\* sequence the projection does not fail and lazada_info is in the output as
\* a sub-object with no field; the same for order_shopee and shopee_info.
C1_EmptySequenceGivesEmptySubObject ==
  /\ pc = "orders" /\ (\A r \in matched : WellFormed(r)) => result.t = "cursor"
  /\ \A out \in Views :
       /\ EmptySequence(getField(sourceOf(out), "order_lazada"))
            => getField(out, "lazada_info") = Doc(EmptyDoc)
       /\ EmptySequence(getField(sourceOf(out), "order_shopee"))
            => getField(out, "shopee_info") = Doc(EmptyDoc)

C1_Witness ==
  \E out \in Views :
    /\ EmptySequence(getField(sourceOf(out), "order_lazada"))
    /\ EmptySequence(getField(sourceOf(out), "order_shopee"))
    /\ out["lazada_info"] = Doc(EmptyDoc)
    /\ out["shopee_info"] = Doc(EmptyDoc)

\* C2: for a record whose order_lazada has at least one element, the
\* customer_first_name and customer_last_name of lazada_info are those of
\* element 0 of order_lazada, also when element 0 has no such field and a
\* later element has one.
C2_LazadaInfoIsElementZero ==
  \A out \in Views :
    LET lazada == getField(sourceOf(out), "order_lazada") IN
    NonEmptySequence(lazada) =>
      /\ getField(out["lazada_info"].v, "customer_first_name")
           = ofElementZero(lazada, "customer_first_name")
      /\ getField(out["lazada_info"].v, "customer_last_name")
           = ofElementZero(lazada, "customer_last_name")

\* raw_body.name of element 0 of order_shopee.
rawBodyOfElementZero(seq, name) ==
  LET raw_body == ofElementZero(seq, "raw_body") IN
  IF raw_body.t = "doc" THEN getField(raw_body.v, name) ELSE Missing

\* C3: for a record whose order_shopee has at least one element,
\* shopee_user_id and shopee_user_name of shopee_info are buyer_user_id and
\* buyer_username of the raw_body of element 0, both from that one element.
C3_ShopeeInfoIsElementZero ==
  \A out \in Views :
    LET shopee == getField(sourceOf(out), "order_shopee") IN
    NonEmptySequence(shopee) =>
      /\ getField(out["shopee_info"].v, "shopee_user_id")
           = rawBodyOfElementZero(shopee, "buyer_user_id")
      /\ getField(out["shopee_info"].v, "shopee_user_name")
           = rawBodyOfElementZero(shopee, "buyer_username")

\* Sub-field name of the shipping_address of a line shopping sub-document.
ofShippingAddress(line, name) ==
  LET shipping_address == getField(line.v, "shipping_address") IN
  IF shipping_address.t = "doc" THEN getField(shipping_address.v, name) ELSE Missing

LineShoppingCopied(out) ==
  LET line == getField(sourceOf(out), "order_line_shopping") IN
  line.t = "doc" =>
    /\ getField(out, "line_shopping_info").t = "doc"
    /\ \A k \in LineShoppingFields :
         getField(out["line_shopping_info"].v, k) = ofShippingAddress(line, k)

\* C4 as claimed: the eight sub-fields of line_shopping_info are those of
\* order_line_shopping.shipping_address when the sub-document is there, and
\* line_shopping_info is not in the output when it is missing or null.
C4_AsClaimed ==
  \A out \in Views :
    /\ LineShoppingCopied(out)
    /\ IsNullish(getField(sourceOf(out), "order_line_shopping"))
         => "line_shopping_info" \notin DOMAIN out

\* C4 amended: the eight sub-fields of line_shopping_info are those of
\* order_line_shopping.shipping_address when the sub-document is there, and
\* line_shopping_info is in the output as a sub-object with no field when it
\* is missing or null.
C4_LineShoppingInfo ==
  \A out \in Views :
    /\ LineShoppingCopied(out)
    /\ IsNullish(getField(sourceOf(out), "order_line_shopping"))
         => getField(out, "line_shopping_info") = Doc(EmptyDoc)

C4_Witness ==
  \E out \in Views :
    LET line == getField(sourceOf(out), "order_line_shopping") IN
    /\ line.t = "doc"
    /\ ofShippingAddress(line, "address") = Str("address")
    /\ ofShippingAddress(line, "district") = Str("district")
    /\ out["line_shopping_info"].v["address"] = Str("address")

NamedFields == PassthroughFields \cup DOMAIN ComputedFields

\* C5 as claimed: the output has only the fields the projection names, the
\* 24 scalars, lazada_info, shopee_info and line_shopping_info.
C5_AsClaimed == \A out \in Views : DOMAIN out \subseteq NamedFields

\* C5 amended: the output has the record's _id and, besides it, only the
\* fields the projection names; no other key of the record is in it.
C5_OnlyNamedFieldsAndId ==
  \A out \in Views :
    /\ "_id" \in DOMAIN out
    /\ DOMAIN out \subseteq NamedFields \cup {"_id"}
    /\ \A k \in DOMAIN sourceOf(out) :
         k \in DOMAIN out <=> k \in PassthroughFields \cup {"_id"}

C5_Witness ==
  \E out \in Views :
    /\ PassthroughFields \cup {"full_order_code", "order_lazada"}
         \subseteq DOMAIN sourceOf(out)
    /\ "full_order_code" \notin DOMAIN out
    /\ DOMAIN out = NamedFields \cup {"_id"}

\* C6: whatever of missing, null, empty and populated order_lazada,
\* order_shopee and order_line_shopping are, the projection of the record
\* gives an output and no error.
C6_TotalOnWellFormed ==
  pc = "orders" /\ (\A r \in matched : WellFormed(r))
    => /\ result.t = "cursor"
       /\ matched # {} => Len(result.v) = 1

C6_Witness ==
  \E out \in Views :
    /\ "order_lazada" \notin DOMAIN sourceOf(out)
    /\ getField(sourceOf(out), "order_shopee") = Null
    /\ getField(sourceOf(out), "order_line_shopping") = Null

\* C8: a run of either script leaves btw_orders and crm_customer_profiles
\* as they were.
C8_CollectionsUnchanged ==
  [][/\ btw_orders' = btw_orders
     /\ crm_customer_profiles' = crm_customer_profiles]_vars

C8_Witness ==
  /\ pc = "customers"
  /\ \E p \in crm_customer_profiles : p["_id"] = Str(DeleteId)
  /\ Cardinality(crm_customer_profiles) = MaxProfiles

\* a is at or above b in the order of the sort.
DateAtLeast(a, b) ==
  \/ IsNullish(b)
  \/ a.t = "date" /\ b.t = "date" /\ a.v >= b.v

\* C9: the order query returns at most one record; when records have the
\* target code, the one returned has it and no record with that code has a
\* later created_date; when none has the code the result is empty.
C9_NewestOfTargetCode ==
  OrdersRan =>
    /\ Len(result.v) <= 1
    /\ (\E r \in btw_orders : getField(r, "full_order_code") = Str(TargetCode))
         => Len(result.v) = 1
    /\ (\A r \in btw_orders : getField(r, "full_order_code") # Str(TargetCode))
         => result.v = <<>>
    /\ \A out \in Views :
         /\ sourceOf(out)["full_order_code"] = Str(TargetCode)
         /\ \A q \in btw_orders :
              getField(q, "full_order_code") = Str(TargetCode)
                => DateAtLeast(getField(sourceOf(out), "created_date"),
                               getField(q, "created_date"))

C9_Witness ==
  \E out \in Views : \E q \in btw_orders :
    /\ q["full_order_code"] = Str(TargetCode)
    /\ getField(q, "created_date").t = "date"
    /\ getField(sourceOf(out), "created_date").t = "date"
    /\ getField(q, "created_date").v < getField(sourceOf(out), "created_date").v

\* The profile has an element of orders whose order_id is the number the
\* filter is written with, 6208981112233112233.
HasOrderOfLiteral(profile) ==
  LET orders == getField(profile, "orders") IN
  /\ orders.t = "arr"
  /\ \E i \in DOMAIN orders.v :
       /\ orders.v[i].t = "doc"
       /\ IsNumber(getField(orders.v[i].v, "order_id"))
       /\ getField(orders.v[i].v, "order_id").v = OrderIdLiteral

\* C10: the customer find returns exactly the profiles with an element of
\* orders whose order_id is the target value, all of them, and none whose
\* orders is empty or missing.
C10_ExactlyProfilesOfTarget ==
  pc = "customers" =>
    result.v = {p \in crm_customer_profiles : HasOrderOfLiteral(p)}

====
